---- MODULE Spec2Model ----
(***************************************************************************)
(* JSON-RPC 2.0 playground server: jsonrpc_playground/server.py.           *)
(*                                                                         *)
(* The model follows one JSONRPCServer instance serving HTTP POSTs (Spec), *)
(* a process that constructs further instances (SpecServers), the accept   *)
(* loop of serve_forever (SpecServe), and the launcher of main.py that     *)
(* starts server and client as child processes (SpecLauncher).  Each       *)
(* POST is handled by RequestHandler.do_POST, which hands the decoded body *)
(* to JSONRPCResponseManager.handle of the json-rpc package (imported at   *)
(* server.py:13) together with the module-global dispatcher that           *)
(* _setup_methods filled with the instance's bound methods.  The package's *)
(* request classes, response classes and manager are modelled as they      *)
(* behave when called from server.py:137.                                  *)
(***************************************************************************)
EXTENDS Integers, Sequences, FiniteSets, TLC

VARIABLES
    log_file,     \* the file named self.log_file: [exists, content]
    method_map,   \* dispatcher.method_map: the registered method names
    pc,           \* "idle": waiting in serve_forever; "responded": do_POST returned
    request,      \* the POST being answered (NoBody when idle)
    response,     \* what do_POST put on the wire for it (NoResponse when idle)
    invoked,      \* the registered handlers do_POST called, in call order
    bound_self,   \* the JSONRPCServer instance whose bound methods dispatcher holds
    log_file2,    \* the log file of the instances constructed after the first
    backlog,      \* connections made to the listening socket, not yet accepted
    in_flight,    \* requests accepted and not yet answered, with their progress
    lpc,          \* PlaygroundLauncher.start: where it is
    cleanup_pc,   \* PlaygroundLauncher._cleanup: where it is ("off" outside it)
    server_proc,  \* the child started by _start_server, and self.server_proc
    client_proc,  \* the child started by _start_client, and self.client_proc
    timeout,      \* the argument of _wait_for_server
    probes,       \* the probe POSTs _wait_for_server has made
    seen_200,     \* the probes that came back with status 200
    ready,        \* what _wait_for_server returned ("unknown" before)
    start_ret,    \* what start returned ("running" before)
    interrupted,  \* KeyboardInterrupt was raised inside the try block of start
    cleanups      \* the runs of _cleanup that have come to their end

instanceVars == <<bound_self, log_file2>>
serveVars == <<backlog, in_flight>>
launcherVars == <<lpc, cleanup_pc, server_proc, client_proc, timeout, probes,
                  seen_200, ready, start_ret, interrupted, cleanups>>
vars == <<log_file, method_map, pc, request, response, invoked, instanceVars,
          serveVars, launcherVars>>

----------------------------------------------------------------------------
(* Bounds of the model *)

\* most elements of a batch array
MaxBatch == 3
\* most positional arguments in a params array
MaxArgs == 3
\* most characters the log file may hold before log_message is no longer sent
MaxLogLen == 6
\* most JSONRPCServer instances constructed in one process
MaxServers == 2
\* most connections waiting in the listen queue of the HTTP server
MaxBacklog == 2
\* largest timeout of _wait_for_server tried beside the default
MaxTimeout == 2

(* Error codes *)
PARSE_ERROR == -32700
INVALID_REQUEST == -32600
METHOD_NOT_FOUND == -32601
INVALID_PARAMS == -32602
INTERNAL_ERROR == -32603
SERVER_ERROR == -32000
SERVER_ERROR_MIN == -32099
HTTP_OK == 200

(* PlaygroundLauncher._wait_for_server *)
DEFAULT_TIMEOUT == 20
PROBES_PER_SECOND == 5

----------------------------------------------------------------------------
(* JSON values as json.loads delivers them to Python.  t is the JSON type;  *)
(* n carries a number (a float carries twice its value, so 1.5 is n = 3),   *)
(* s carries a string.  "absent" marks an object member that is not there.  *)

I(n) == [t |-> "int", n |-> n, s |-> ""]
S(s) == [t |-> "str", n |-> 0, s |-> s]
B(b) == [t |-> "bool", n |-> IF b THEN 1 ELSE 0, s |-> ""]
Float2(h) == [t |-> "float", n |-> h, s |-> ""]
\* the float json.loads makes of a number beyond the doubles, such as 1e999
Inf == [t |-> "float", n |-> 0, s |-> "inf"]
Null == [t |-> "null", n |-> 0, s |-> ""]
Absent == [t |-> "absent", n |-> 0, s |-> ""]

\* isinstance(v, int): bool is a subclass of int
IsPyInt(v) == v.t \in {"int", "bool"}
\* isinstance(v, str)
IsPyStr(v) == v.t = "str"

\* str(v), as an f-string formats it
PyStr(v) ==
    CASE v.t = "int" -> ToString(v.n)
      [] v.t = "str" -> v.s
      [] v.t = "bool" -> (IF v.n = 1 THEN "True" ELSE "False")
      [] v = Inf -> "inf"
      [] v.t = "float" /\ v # Inf ->
            ToString(v.n \div 2) \o (IF v.n % 2 = 0 THEN ".0" ELSE ".5")
      [] OTHER -> "None"

\* a + b in Python: [ok, v]; ok = FALSE is a TypeError
PyAdd(a, b) ==
    IF (a = Inf /\ (IsPyInt(b) \/ b.t = "float")) \/ (b = Inf /\ (IsPyInt(a) \/ a.t = "float"))
    THEN [ok |-> TRUE, v |-> Inf]
    ELSE IF IsPyInt(a) /\ IsPyInt(b) THEN [ok |-> TRUE, v |-> I(a.n + b.n)]
    ELSE IF a.t = "float" /\ b.t = "float" THEN [ok |-> TRUE, v |-> Float2(a.n + b.n)]
    ELSE IF a.t = "float" /\ IsPyInt(b) THEN [ok |-> TRUE, v |-> Float2(a.n + 2 * b.n)]
    ELSE IF IsPyInt(a) /\ b.t = "float" THEN [ok |-> TRUE, v |-> Float2(2 * a.n + b.n)]
    ELSE IF IsPyStr(a) /\ IsPyStr(b) THEN [ok |-> TRUE, v |-> S(a.s \o b.s)]
    ELSE [ok |-> FALSE, v |-> Null]

----------------------------------------------------------------------------
(* params member: absent, null, a JSON array (list), a JSON object (dict,   *)
(* kept as its name/value pairs with distinct names) or another JSON value. *)

NoParams == [k |-> "absent", list |-> <<>>, dict |-> <<>>]
NullParams == [k |-> "null", list |-> <<>>, dict |-> <<>>]
ListParams(l) == [k |-> "list", list |-> l, dict |-> <<>>]
DictParams(d) == [k |-> "dict", list |-> <<>>, dict |-> d]
ScalarParams == [k |-> "scalar", list |-> <<>>, dict |-> <<>>]
KV(k, v) == [k |-> k, v |-> v]

(* A JSON object received as a call: its four known members and whether it  *)
(* has any member besides them.                                              *)
Call(j, m, p, i) == [jsonrpc |-> j, method |-> m, params |-> p, id |-> i, extra |-> FALSE]
NoCall == Call(Absent, Absent, NoParams, Absent)

(* An element of the payload: a JSON object or some other JSON value. *)
Obj(c) == [k |-> "object", obj |-> c]
NonObj == [k |-> "scalar", obj |-> NoCall]

(* A POST: the Content-Length header ("ok", "missing", "nonnumeric"), whether *)
(* the bytes decode as UTF-8, the text ("json" when json.loads accepts it,    *)
(* else "truncated", "bareword" or "empty"), and the document the text holds  *)
(* (for "truncated": the document whose closing brace was cut off).           *)
(* peer: whether the client still reads from the connection ("open") or has  *)
(* closed it after sending the request ("closed").                           *)
Body(hdr, utf8, text, top, elems) ==
    [hdr |-> hdr, utf8 |-> utf8, text |-> text, top |-> top, elems |-> elems,
     peer |-> "open"]
\* the same POST from a client that does not wait for the answer
HungUp(b) == [b EXCEPT !.peer = "closed"]
Single(c) == Body("ok", TRUE, "json", "single", <<Obj(c)>>)
Batch(es) == Body("ok", TRUE, "json", "array", es)
NoBody == Body("none", TRUE, "empty", "single", <<>>)

----------------------------------------------------------------------------
(* The registry and the handlers: JSONRPCServer._setup_methods and the      *)
(* methods it registers.                                                    *)

MethodNames ==
    {"add", "strict_add", "cause_internal_error", "greet", "demo_method",
     "log_message", "get_log", "clear_log"}

\* the parameters of each handler after self, in order
ParamNames(m) ==
    CASE m \in {"add", "strict_add"} -> <<"a", "b">>
      [] m = "greet" -> <<"name">>
      [] m = "log_message" -> <<"message">>
      [] m = "cause_internal_error" -> <<"trigger">>
      [] m = "demo_method" -> <<"param1", "param2">>
      [] OTHER -> <<>>

\* a slip: demo_method's param2 given a default
NumDefaultsDemo(m) == IF m \in {"cause_internal_error", "demo_method"} THEN 1 ELSE 0

\* how many trailing parameters have a default, and the default
NumDefaults(m) == IF m = "cause_internal_error" THEN 1 ELSE 0
DefaultTrigger == S("error")

Range(f) == {f[i] : i \in DOMAIN f}
KeysOf(kwargs) == {kwargs[i].k : i \in DOMAIN kwargs}
ValueOf(kwargs, name) == (CHOOSE i \in DOMAIN kwargs : kwargs[i].k = name)
IndexOf(names, name) == CHOOSE j \in DOMAIN names : names[j] = name

(* Python's binding of request.args and request.kwargs to the handler's      *)
(* parameters when the manager calls it.  FALSE is the TypeError it raises.  *)
Binds(m, args, kwargs) ==
    LET names == ParamNames(m)
        required == Len(names) - NumDefaults(m)
    IN  /\ Len(args) <= Len(names)
        /\ \A i \in DOMAIN kwargs :
              /\ kwargs[i].k \in Range(names)
              /\ IndexOf(names, kwargs[i].k) > Len(args)
        /\ \A j \in 1..required :
              j > Len(args) => names[j] \in KeysOf(kwargs)

\* the value parameter number j receives
Arg(m, args, kwargs, j) ==
    IF j <= Len(args) THEN args[j]
    ELSE IF j > Len(ParamNames(m)) THEN Null
    ELSE IF ParamNames(m)[j] \in KeysOf(kwargs)
    THEN kwargs[ValueOf(kwargs, ParamNames(m)[j])].v
    ELSE DefaultTrigger

(* The outcome of a handler: the exception it raised ("none" when it         *)
(* returned), the exception text, the value returned and the log file after. *)
Returned(v, log) == [exc |-> "none", msg |-> "", result |-> v, log |-> log]
Raised(exc, msg, log) == [exc |-> exc, msg |-> msg, result |-> Null, log |-> log]

\* return a + b, r being the outcome of the addition
AddOutcome(r, log) ==
    IF r.ok THEN Returned(r.v, log)
    ELSE Raised("TypeError", "unsupported operand type(s) for +", log)

add(a, b, log) == AddOutcome(PyAdd(a, b), log)

greet(name, log) == Returned(S("Hello, " \o PyStr(name) \o "!"), log)

\* open(..., "a") creates the file before write() is reached
log_message(message, log) ==
    IF IsPyStr(message)
    THEN Returned(Null, [exists |-> TRUE, content |-> log.content \o message.s \o "\n"])
    ELSE Raised("TypeError", "unsupported operand type(s) for +",
                [exists |-> TRUE, content |-> log.content])

(* f.read() of a file opened in text mode with the default newline: the    *)
(* carriage returns of the file, alone or before a line feed, are read as   *)
(* line feeds.                                                              *)
RECURSIVE UniversalNewlines(_)
UniversalNewlines(s) ==
    IF s = "" THEN ""
    ELSE IF Len(s) >= 2 /\ SubSeq(s, 1, 2) = "\r\n"
    THEN "\n" \o UniversalNewlines(SubSeq(s, 3, Len(s)))
    ELSE IF SubSeq(s, 1, 1) = "\r"
    THEN "\n" \o UniversalNewlines(SubSeq(s, 2, Len(s)))
    ELSE SubSeq(s, 1, 1) \o UniversalNewlines(SubSeq(s, 2, Len(s)))

\* a slip: the file is opened for appending and reading, which creates it
get_log_creating(log) ==
    Returned(S(UniversalNewlines(log.content)), [exists |-> TRUE, content |-> log.content])

get_log(log) ==
    IF log.exists THEN Returned(S(UniversalNewlines(log.content)), log)
    ELSE Returned(S("Log is empty."), log)

clear_log(log) == Returned(S("Log cleared."), [exists |-> TRUE, content |-> ""])

\* a slip: the test on trigger inverted
cause_internal_error_inverted(trigger, log) ==
    IF trigger # S("error")
    THEN Raised("RuntimeError", "This is a deliberate internal error for demonstration", log)
    ELSE Returned(S("No error triggered. Received: " \o PyStr(trigger)), log)

cause_internal_error(trigger, log) ==
    IF trigger = S("error")
    THEN Raised("RuntimeError", "This is a deliberate internal error for demonstration", log)
    ELSE Returned(S("No error triggered. Received: " \o PyStr(trigger)), log)

\* a slip: the type check raises ValueError
strict_add_ValueError(a, b, log) ==
    IF ~IsPyInt(a) \/ ~IsPyInt(b)
    THEN Raised("ValueError", "Both parameters must be integers", log)
    ELSE Returned(I(a.n + b.n), log)

strict_add(a, b, log) ==
    IF ~IsPyInt(a) \/ ~IsPyInt(b)
    THEN Raised("TypeError", "Both parameters must be integers", log)
    ELSE Returned(I(a.n + b.n), log)

demo_method(param1, param2, log) ==
    Returned(S("Received: " \o PyStr(param1) \o " and " \o PyStr(param2)), log)

\* the bound method registered under m, called with the values a1, a2 bound
\* to its first and second parameter
CallMethod(m, a1, a2, log) ==
    CASE m = "add" -> add(a1, a2, log)
      [] m = "strict_add" -> strict_add(a1, a2, log)
      [] m = "greet" -> greet(a1, log)
      [] m = "log_message" -> log_message(a1, log)
      [] m = "get_log" -> get_log(log)
      [] m = "clear_log" -> clear_log(log)
      [] m = "cause_internal_error" -> cause_internal_error(a1, log)
      [] m = "demo_method" -> demo_method(a1, a2, log)

(* Calling the bound method registered under m with args and kwargs. *)
Invoke(m, args, kwargs, log) ==
    IF ~Binds(m, args, kwargs)
    THEN Raised("TypeError", "missing or unexpected argument", log)
    ELSE CallMethod(m, Arg(m, args, kwargs, 1), Arg(m, args, kwargs, 2), log)

----------------------------------------------------------------------------
(* Request validation: JSONRPCRequest.from_data as handle calls it on the    *)
(* parsed document.                                                          *)

\* method names of the model that begin with "rpc."
ReservedNames == {"rpc.discover"}

\* request.args and request.kwargs
ArgsOf(p) == IF p.k = "list" THEN p.list ELSE <<>>
KwargsOf(p) == IF p.k = "dict" THEN p.dict ELSE <<>>

\* a slip: the id is kept as its text
RequestIdAsText(c) == IF c.id = Absent THEN Null ELSE S(PyStr(c.id))

\* request._id: d.get("id"), None when the member is missing
RequestId(c) == IF c.id = Absent THEN Null ELSE c.id

Req(version, c, notif) ==
    [version |-> version, method |-> c.method.s, args |-> ArgsOf(c.params),
     kwargs |-> KwargsOf(c.params), id |-> RequestId(c), notif |-> notif]

(* JSONRPC20Request: the members are "jsonrpc" and "method", optionally      *)
(* "params" and "id", and nothing else; method is a string that does not     *)
(* begin with "rpc."; params is None, a list or a dict; id is None, a string *)
(* or an integer.  The value of "jsonrpc" is not looked at.                  *)
Valid20(c) ==
    /\ c.jsonrpc # Absent
    /\ c.method # Absent
    /\ ~c.extra
    /\ IsPyStr(c.method)
    /\ c.method.s \notin ReservedNames
    /\ c.params.k \in {"absent", "null", "list", "dict"}
    /\ c.id.t \in {"absent", "null", "str", "int", "bool"}

\* a 2.0 call is a notification when it has no "id" member
Parse20(c) == Req("2.0", c, c.id = Absent)

(* JSONRPC10Request, taken for a top-level object without "jsonrpc": the     *)
(* members must be exactly "method", "params" and "id".                      *)
Fields10(c) == c.method # Absent /\ c.params.k # "absent" /\ c.id # Absent /\ ~c.extra
\* its setters raise ValueError for a method that is no string and for
\* params that are no list
Setters10(c) == IsPyStr(c.method) /\ c.params.k = "list"
\* a 1.0 call is a notification when its id is None
Parse10(c) == Req("1.0", c, c.id = Null)

(* from_data: out is "ok" (reqs holds the calls), "invalid"                  *)
(* (JSONRPCInvalidRequestException) or "raise" (a ValueError that leaves     *)
(* handle).                                                                  *)
FromData10(c) ==
    IF ~Fields10(c) THEN [out |-> "invalid", batch |-> FALSE, reqs |-> <<>>]
    ELSE IF ~Setters10(c) THEN [out |-> "raise", batch |-> FALSE, reqs |-> <<>>]
    ELSE [out |-> "ok", batch |-> FALSE, reqs |-> <<Parse10(c)>>]

\* a slip: the empty array passes as a batch of no requests
FromDataAcceptsEmpty(top, elems) ==
    IF top = "single" /\ elems[1].k = "object" /\ elems[1].obj.jsonrpc = Absent
    THEN FromData10(elems[1].obj)
    ELSE IF \/ \E i \in DOMAIN elems : elems[i].k # "object"
            \/ \E i \in DOMAIN elems : ~Valid20(elems[i].obj)
         THEN [out |-> "invalid", batch |-> top = "array", reqs |-> <<>>]
         ELSE [out |-> "ok", batch |-> top = "array",
               reqs |-> [i \in DOMAIN elems |-> Parse20(elems[i].obj)]]

FromData(top, elems) ==
    IF top = "single" /\ elems[1].k = "object" /\ elems[1].obj.jsonrpc = Absent
    THEN FromData10(elems[1].obj)
    ELSE IF \/ elems = <<>>
            \/ \E i \in DOMAIN elems : elems[i].k # "object"
            \/ \E i \in DOMAIN elems : ~Valid20(elems[i].obj)
         THEN [out |-> "invalid", batch |-> top = "array", reqs |-> <<>>]
         ELSE [out |-> "ok", batch |-> top = "array",
               reqs |-> [i \in DOMAIN elems |-> Parse20(elems[i].obj)]]

----------------------------------------------------------------------------
(* Response envelopes: JSONRPC20Response.data and JSONRPC10Response.data.    *)

NoData == [k |-> "none", type |-> "", message |-> ""]
ExcData(type, msg) == [k |-> "object", type |-> type, message |-> msg]
StrData(msg) == [k |-> "string", type |-> "", message |-> msg]

Envelope(j, hasResult, result, hasError, code, message, data, id) ==
    [jsonrpc |-> j, has_result |-> hasResult, result |-> result,
     has_error |-> hasError, code |-> code, message |-> message, data |-> data,
     id |-> id]

ResultEnv(version, id, v) ==
    Envelope(IF version = "2.0" THEN S("2.0") ELSE Absent,
             TRUE, v, FALSE, 0, "", NoData, id)
ErrorEnv(version, id, code, message, data) ==
    Envelope(IF version = "2.0" THEN S("2.0") ELSE Absent,
             FALSE, Null, TRUE, code, message, data, id)

\* a slip: unparseable text reported as the transport failures are
ParseErrorAsInternal == ErrorEnv("2.0", Null, INTERNAL_ERROR, "Internal error", NoData)

ParseErrorEnv == ErrorEnv("2.0", Null, PARSE_ERROR, "Parse error", NoData)
InvalidRequestEnv == ErrorEnv("2.0", Null, INVALID_REQUEST, "Invalid Request", NoData)

(* is_invalid_params(method, args, kwargs): the registered handlers are      *)
(* bound methods, for which inspect.isfunction is false, so every TypeError  *)
(* a handler call raises counts as invalid params.                           *)
IsInvalidParams(m, args, kwargs) == TRUE

\* a slip: an unknown method reported as a handler failure
MethodNotFoundAsServerError(r) ==
    ErrorEnv(r.version, r.id, SERVER_ERROR, "Server error", NoData)

\* the response to a method name that dispatcher does not hold
MethodNotFoundEnv(r) ==
    ErrorEnv(r.version, r.id, METHOD_NOT_FOUND, "Method not found", NoData)

(* One step of JSONRPCResponseManager._get_responses: the response built for *)
(* request r with the log file as it is.  raised: make_response raised       *)
(* ValueError (a 1.0 response cannot carry the id None).                     *)
\* the response made from the outcome o of the handler
OutcomeEnv(r, o) ==
    IF o.exc = "none" THEN ResultEnv(r.version, r.id, o.result)
    ELSE IF o.exc = "TypeError" /\ IsInvalidParams(r.method, r.args, r.kwargs)
    THEN ErrorEnv(r.version, r.id, INVALID_PARAMS, "Invalid params", ExcData(o.exc, o.msg))
    ELSE ErrorEnv(r.version, r.id, SERVER_ERROR, "Server error", ExcData(o.exc, o.msg))

Responded1(r, o) == [called |-> TRUE, log |-> o.log, env |-> OutcomeEnv(r, o)]

Respond(r, registry, log) ==
    IF r.method \notin registry
    THEN [called |-> FALSE, log |-> log, env |-> MethodNotFoundEnv(r)]
    ELSE Responded1(r, Invoke(r.method, r.args, r.kwargs, log))

\* a slip: the response of a notification is yielded like any other
YieldedAlways(r) == TRUE

\* whether the response of request r is yielded by _get_responses
Yielded(r) == ~r.notif

(* _get_responses over the requests from number i on, in input order.  acc   *)
(* is [log, invoked, out, raised]; a raise ends the iteration.               *)
\* make_response raises for a 1.0 request whose id is None
ResponseRaises(r) == r.version = "1.0" /\ r.id = Null

\* a slip: the next handler is given the log file as the batch found it
CollectKeepingLog(acc, r, x) ==
    [log |-> acc.log,
     invoked |-> IF x.called THEN Append(acc.invoked, r.method) ELSE acc.invoked,
     out |-> IF ~ResponseRaises(r) /\ Yielded(r) THEN Append(acc.out, x.env) ELSE acc.out,
     raised |-> ResponseRaises(r)]

\* acc after request r was answered with x
Collect(acc, r, x) ==
    [log |-> x.log,
     invoked |-> IF x.called THEN Append(acc.invoked, r.method) ELSE acc.invoked,
     out |-> IF ~ResponseRaises(r) /\ Yielded(r) THEN Append(acc.out, x.env) ELSE acc.out,
     raised |-> ResponseRaises(r)]

RECURSIVE GetResponses(_, _, _, _)
GetResponses(reqs, i, registry, acc) ==
    IF i > Len(reqs) \/ acc.raised THEN acc
    ELSE GetResponses(reqs, i + 1, registry,
                      Collect(acc, reqs[i], Respond(reqs[i], registry, acc.log)))

----------------------------------------------------------------------------
(* JSONRPCResponseManager.handle(request_data, dispatcher).                  *)
(* kind: "none" (handle returned None), "single", "array", or "raise" (an    *)
(* exception left handle; msg is its text).                                  *)

Handled(kind, envs, log, called, msg) ==
    [kind |-> kind, envs |-> envs, log |-> log, invoked |-> called, msg |-> msg]

\* handle_request: what is returned for the responses g collected
HandleRequest(batch, g) ==
    IF g.raised
    THEN Handled("raise", <<>>, g.log, g.invoked,
                 "id could not be None for JSON-RPC1.0 Response")
    ELSE IF g.out = <<>> THEN Handled("none", <<>>, g.log, g.invoked, "")
    ELSE IF batch THEN Handled("array", g.out, g.log, g.invoked, "")
    ELSE Handled("single", <<g.out[1]>>, g.log, g.invoked, "")

\* handle after from_data gave d
HandleData(d, registry, log) ==
    IF d.out = "invalid" THEN Handled("single", <<InvalidRequestEnv>>, log, <<>>, "")
    ELSE IF d.out = "raise"
    THEN Handled("raise", <<>>, log, <<>>, "Incorrect params or method")
    ELSE HandleRequest(d.batch,
            GetResponses(d.reqs, 1, registry,
                [log |-> log, invoked |-> <<>>, out |-> <<>>, raised |-> FALSE]))

Handle(b, registry, log) ==
    IF b.text # "json"
    THEN Handled("single", <<ParseErrorEnv>>, log, <<>>, "")
    ELSE HandleData(FromData(b.top, b.elems), registry, log)

----------------------------------------------------------------------------
(* RequestHandler.do_POST.                                                   *)

\* the envelope both except branches write
InternalErrorEnv(msg) ==
    Envelope(S("2.0"), FALSE, Null, TRUE, INTERNAL_ERROR, "Internal error",
             StrData(msg), Null)

\* what went onto the wire: status line, header blocks sent, body
HttpResponse(status, blocks, k, envs) ==
    [status |-> status, header_blocks |-> blocks, body |-> [k |-> k, envs |-> envs]]
NoResponse == HttpResponse(0, 0, "empty", <<>>)

Done(resp, log, called) == [response |-> resp, log |-> log, invoked |-> called]

\* a slip: response.data is written without the test on response; for None
\* the AttributeError is raised after the headers went out
SendResponseUnchecked(h) ==
    IF h.kind = "none"
    THEN HttpResponse(HTTP_OK, 2, "single",
            <<InternalErrorEnv("'NoneType' object has no attribute 'data'")>>)
    ELSE HttpResponse(HTTP_OK, 1, h.kind, h.envs)

\* lines 139-148: the headers, then response.data as JSON or nothing
SendResponse(h) ==
    IF h.kind = "none"
    THEN HttpResponse(HTTP_OK, 1, "empty", <<>>)
    ELSE HttpResponse(HTTP_OK, 1, h.kind, h.envs)

\* a slip: the exception that left handle answered with a server-error status
AnswerWithStatus500(h) ==
    IF h.kind = "raise"
    THEN Done(HttpResponse(500, 1, "single", <<InternalErrorEnv(h.msg)>>),
              h.log, h.invoked)
    ELSE Done(SendResponse(h), h.log, h.invoked)

(* json.dumps(response.data) with the default allow_nan: a non-finite float *)
(* is written as the token Infinity, which the JSON grammar does not hold.  *)
DumpsIsJson(v) == v # Inf
BodyIsJson(body) ==
    \A k \in DOMAIN body.envs :
        body.envs[k].has_result => DumpsIsJson(body.envs[k].result)

\* lines 137-181 once handle returned or raised h
Answer(h) ==
    IF h.kind = "raise"
    THEN Done(HttpResponse(HTTP_OK, 1, "single", <<InternalErrorEnv(h.msg)>>),
              h.log, h.invoked)
    ELSE Done(SendResponse(h), h.log, h.invoked)

do_POST(b, registry, log) ==
    IF b.hdr = "missing"
    THEN Done(HttpResponse(HTTP_OK, 1, "single",
                 <<InternalErrorEnv("int() argument must be a string or a number")>>),
              log, <<>>)
    ELSE IF b.hdr = "nonnumeric"
    THEN Done(HttpResponse(HTTP_OK, 1, "single",
                 <<InternalErrorEnv("invalid literal for int() with base 10")>>),
              log, <<>>)
    ELSE IF ~b.utf8
    THEN Done(HttpResponse(HTTP_OK, 1, "single",
                 <<InternalErrorEnv("'utf-8' codec can't decode byte")>>),
              log, <<>>)
    ELSE Answer(Handle(b, registry, log))

----------------------------------------------------------------------------
(* The POSTs clients send.                                                   *)

ArgVals == {I(3), I(5), S("5"), S("error")}

SeqsUpTo(V, n) == UNION {[1..k -> V] : k \in 0..n}

\* the member names of the params objects sent
DictDomains ==
    {<<>>, <<"a">>, <<"a", "b">>, <<"a", "b", "c">>, <<"name">>, <<"message">>,
     <<"trigger">>, <<"param1">>, <<"param1", "param2">>}

DictsOver(names) ==
    {[i \in DOMAIN names |-> KV(names[i], vs[i])] : vs \in [DOMAIN names -> ArgVals]}

ParamsPool ==
    {NoParams, NullParams, ScalarParams}
        \cup {ListParams(l) : l \in SeqsUpTo(ArgVals, MaxArgs)}
        \cup {DictParams(d) : d \in UNION {DictsOver(names) : names \in DictDomains}}

\* calls with "jsonrpc": "2.0" to registered and unregistered methods
CallsPool ==
    {Call(S("2.0"), S(m), p, i) :
        m \in MethodNames \cup {"does_not_exist"},
        p \in ParamsPool,
        i \in {Absent, I(1), S("1")}}

\* calls with values of the other JSON types: a number beyond the doubles,
\* a message holding a carriage return, true, a fractional number, null
EdgeCalls ==
    {Call(S("2.0"), S("add"), ListParams(<<Inf, I(3)>>), I(1)),
     Call(S("2.0"), S("log_message"), ListParams(<<S("\r")>>), I(1)),
     Call(S("2.0"), S("log_message"), ListParams(<<S("\r")>>), Absent),
     Call(S("2.0"), S("strict_add"), ListParams(<<B(TRUE), I(3)>>), I(1)),
     Call(S("2.0"), S("strict_add"), ListParams(<<I(3), Float2(3)>>), I(1)),
     Call(S("2.0"), S("strict_add"), ListParams(<<Null, I(3)>>), I(1))}

\* objects with members missing, of the wrong type, or in excess
OddParams ==
    {NoParams, NullParams, ScalarParams, ListParams(<<I(3), I(5)>>),
     ListParams(<<S("5")>>), DictParams(<<KV("a", I(1)), KV("b", I(2))>>)}

OddPool ==
    {[jsonrpc |-> j, method |-> m, params |-> p, id |-> i, extra |-> x] :
        j \in {Absent, S("2.0"), S("1.0"), I(2)},
        m \in {Absent, S("add"), S(""), I(5), S("rpc.discover"), S("log_message"),
               S("does_not_exist")},
        p \in OddParams,
        i \in {Absent, Null, I(1), S("1"), Float2(3), B(TRUE)},
        x \in BOOLEAN}

\* the elements batches are built from
ElemPool ==
    {Obj(Call(S("2.0"), S("add"), ListParams(<<I(3), I(5)>>), I(1))),
     Obj(Call(S("2.0"), S("does_not_exist"), NoParams, I(2))),
     Obj(Call(S("2.0"), S("cause_internal_error"), NoParams, I(3))),
     Obj(Call(S("2.0"), S("strict_add"),
              DictParams(<<KV("a", S("5")), KV("b", I(3))>>), I(4))),
     Obj(Call(S("2.0"), S("get_log"), NoParams, S("g"))),
     Obj(Call(S("2.0"), S("log_message"), ListParams(<<S("5")>>), Absent)),
     Obj(Call(S("2.0"), S("clear_log"), NoParams, Absent)),
     Obj(Call(S("2.0"), S("cause_internal_error"), NoParams, Absent)),
     Obj(Call(S("2.0"), S("does_not_exist"), NoParams, Absent)),
     Obj(Call(S("2.0"), S("demo_method"), ListParams(<<S("5")>>), Absent)),
     NonObj}

\* the object the playground's parse-error demonstration cuts short
DemoCall == Call(S("2.0"), S("add"), DictParams(<<KV("a", I(1)), KV("b", I(2))>>), I(1))

BodyPool ==
    {Single(c) : c \in CallsPool \cup OddPool \cup EdgeCalls}
        \cup {Batch(es) : es \in SeqsUpTo(ElemPool, MaxBatch)}
        \cup {Body("ok", TRUE, "json", "single", <<NonObj>>)}
        \cup {Body("ok", TRUE, t, "single", <<Obj(DemoCall)>>) :
                 t \in {"truncated", "bareword", "empty"}}
        \cup {Body(h, TRUE, "json", "single", <<Obj(DemoCall)>>) :
                 h \in {"missing", "nonnumeric"}}
        \cup {Body("ok", FALSE, "json", "single", <<Obj(DemoCall)>>)}

----------------------------------------------------------------------------
(* The state machine.                                                        *)

MissingFile == [exists |-> FALSE, content |-> ""]

\* a child process and the attribute that holds it: handle is FALSE while
\* the attribute is None; terminated, killed: terminate() and kill() were
\* called on it; timed_out: wait(timeout=2) raised TimeoutExpired
NoProc ==
    [handle |-> FALSE, alive |-> FALSE, terminated |-> FALSE, killed |-> FALSE,
     timed_out |-> FALSE]

\* PlaygroundLauncher.__init__, start not yet called
InitLauncher ==
    /\ lpc = "new"
    /\ cleanup_pc = "off"
    /\ server_proc = NoProc
    /\ client_proc = NoProc
    /\ timeout = 0
    /\ probes = 0
    /\ seen_200 = 0
    /\ ready = "unknown"
    /\ start_ret = "running"
    /\ interrupted = FALSE
    /\ cleanups = 0

\* JSONRPCServer.__init__: the log file may be left over from an earlier run
Init ==
    /\ log_file \in {MissingFile,
                     [exists |-> TRUE, content |-> ""],
                     [exists |-> TRUE, content |-> "5\n"]}
    /\ method_map = MethodNames
    /\ pc = "idle"
    /\ request = NoBody
    /\ response = NoResponse
    /\ invoked = <<>>
    /\ bound_self = 1
    /\ log_file2 = MissingFile
    /\ backlog = <<>>
    /\ in_flight = <<>>
    /\ InitLauncher

\* a client's POST b is accepted and do_POST runs to its end
\* the log file of the instance whose methods are registered
SelfLog == IF bound_self = 1 THEN log_file ELSE log_file2

Effect(d) ==
    /\ Len(d.log.content) <= MaxLogLen
    /\ IF bound_self = 1
       THEN log_file' = d.log /\ log_file2' = log_file2
       ELSE log_file2' = d.log /\ log_file' = log_file
    /\ response' = d.response
    /\ invoked' = d.invoked

DoPost(b) ==
    /\ pc = "idle"
    /\ Effect(do_POST(b, method_map, SelfLog))
    /\ request' = b
    /\ pc' = "responded"
    /\ UNCHANGED <<method_map, bound_self, serveVars, launcherVars>>

\* the connection is closed and serve_forever waits for the next request
Finish ==
    /\ pc = "responded"
    /\ pc' = "idle"
    /\ request' = NoBody
    /\ response' = NoResponse
    /\ invoked' = <<>>
    /\ UNCHANGED <<log_file, method_map, instanceVars, serveVars, launcherVars>>

Next ==
    \/ pc = "idle" /\ \E b \in BodyPool : DoPost(b)
    \/ Finish

Spec == Init /\ [][Next]_vars

----------------------------------------------------------------------------
(* A process that constructs further JSONRPCServer instances, as the tests   *)
(* do; the POSTs go to the HTTP server of the first.                         *)

\* JSONRPCServer(log_file=...): _setup_methods clears the module-global
\* dispatcher and registers the bound methods of the new instance
NewServer ==
    /\ pc = "idle"
    /\ bound_self < MaxServers
    /\ bound_self' = bound_self + 1
    /\ method_map' = MethodNames
    /\ UNCHANGED <<log_file, log_file2, pc, request, response, invoked, serveVars,
                   launcherVars>>

\* the POSTs that read and write the log
LogBodies ==
    {Single(Call(S("2.0"), S("log_message"), ListParams(<<S("5")>>), Absent)),
     Single(Call(S("2.0"), S("log_message"), ListParams(<<S("5")>>), I(1))),
     Single(Call(S("2.0"), S("clear_log"), NoParams, I(1))),
     Single(Call(S("2.0"), S("get_log"), NoParams, I(1))),
     Single(Call(S("2.0"), S("add"), ListParams(<<I(3), I(5)>>), I(1)))}

NextServers ==
    \/ pc = "idle" /\ \E b \in LogBodies : DoPost(b)
    \/ Finish
    \/ NewServer

SpecServers == Init /\ [][NextServers]_vars

----------------------------------------------------------------------------
(* Vocabulary of the properties.                                             *)

Responded == pc = "responded"

\* the body was read and decoded, and is a JSON document
Readable(b) == b.hdr = "ok" /\ b.utf8
IsJson(b) == Readable(b) /\ b.text = "json"

(* A well-formed JSON-RPC 2.0 call: the members jsonrpc, method, params and  *)
(* id and no others; jsonrpc is the string "2.0"; method is a non-empty      *)
(* string outside the reserved rpc. names; params, when present, is an array *)
(* or an object; id, when present, is a string, an integer or null.          *)
WellFormed(c) ==
    /\ c.jsonrpc = S("2.0")
    /\ c.method.t = "str" /\ c.method.s # "" /\ c.method.s \notin ReservedNames
    /\ c.params.k \in {"absent", "list", "dict"}
    /\ c.id.t \in {"absent", "str", "int", "null"}
    /\ ~c.extra

\* a POST of one well-formed call, or of a non-empty batch of them
ValidPost(b) ==
    /\ IsJson(b)
    /\ b.elems # <<>>
    /\ \A i \in DOMAIN b.elems : b.elems[i].k = "object" /\ WellFormed(b.elems[i].obj)

HasId(e) == e.obj.id # Absent
\* the calls of the POST that carry an id, in input order
RequestsOf(b) == SelectSeq(b.elems, HasId)
Envs == response.body.envs

Registered(c) == c.method.s \in method_map

----------------------------------------------------------------------------
\* C1: a POST made only of valid notifications (one call without id, or a
\* batch whose elements all lack id) is answered with status 200 and a
\* zero-length body, whether the handlers succeed, raise, do not bind their
\* params, or are not registered.
C1_NotificationsGetEmptyBody ==
    (Responded /\ ValidPost(request) /\ RequestsOf(request) = <<>>)
        => /\ response.status = HTTP_OK
           /\ response.header_blocks = 1
           /\ response.body.k = "empty"
           /\ Envs = <<>>

\* a batch of three notifications: a handler that raises, params that do not
\* bind, and an unregistered method
C1_Witness ==
    /\ Responded /\ ValidPost(request) /\ RequestsOf(request) = <<>>
    /\ request.top = "array" /\ Len(request.elems) = 3
    /\ request.elems[1].obj.method.s = "cause_internal_error"
    /\ request.elems[2].obj.method.s = "demo_method"
    /\ request.elems[3].obj.method.s = "does_not_exist"
    /\ invoked = <<"cause_internal_error", "demo_method">>
    /\ response.body.k = "empty"

----------------------------------------------------------------------------
----------------------------------------------------------------------------
\* C3: a batch of valid calls holding at least one request is answered with
\* an array of exactly one envelope per request, none for the notifications,
\* in the input order of the requests; an element that fails neither removes
\* nor reorders the envelopes of the others.
C3_BatchOneEnvelopePerRequestInOrder ==
    (Responded /\ ValidPost(request) /\ request.top = "array"
        /\ RequestsOf(request) # <<>>)
        => /\ response.body.k = "array"
           /\ Len(Envs) = Len(RequestsOf(request))
           /\ \A k \in DOMAIN Envs :
                LET c == RequestsOf(request)[k].obj
                IN  /\ Envs[k].id = c.id
                    /\ Envs[k].has_result # Envs[k].has_error
                    /\ ~Registered(c) => Envs[k].code = METHOD_NOT_FOUND
                    /\ c.method.s = "add" => Envs[k].has_result

\* two requests around a notification, the first failing
C3_Witness ==
    /\ Responded /\ ValidPost(request) /\ request.top = "array"
    /\ Len(request.elems) = 3
    /\ HasId(request.elems[1]) /\ ~HasId(request.elems[2]) /\ HasId(request.elems[3])
    /\ Len(Envs) = 2
    /\ Envs[1].has_error /\ Envs[1].id = I(2)
    /\ Envs[2].has_result /\ Envs[2].id = I(1)

----------------------------------------------------------------------------
\* C4: a body that was read and decoded but is not valid JSON is answered
\* with status 200 and one error envelope with code -32700 and id null.
C4_InvalidJsonIsParseError ==
    (Responded /\ Readable(request) /\ request.text # "json")
        => /\ response.status = HTTP_OK
           /\ response.body.k = "single"
           /\ Len(Envs) = 1
           /\ Envs[1].has_error /\ ~Envs[1].has_result
           /\ Envs[1].code = PARSE_ERROR
           /\ Envs[1].id = Null

\* the object cut off before its closing brace
C4_Witness ==
    /\ Responded /\ Readable(request) /\ request.text = "truncated"
    /\ request.elems = <<Obj(DemoCall)>>
    /\ Envs[1].code = PARSE_ERROR

----------------------------------------------------------------------------
\* C5: the object {"method":"add","params":{"a":1,"b":2},"id":1}, valid JSON
\* without a jsonrpc member, is answered with an error envelope whose code
\* is -32600 and no other.
C5_MissingJsonrpcIsInvalidRequest ==
    (Responded
        /\ request = Single(Call(Absent, S("add"),
                                 DictParams(<<KV("a", I(1)), KV("b", I(2))>>), I(1))))
        => /\ Len(Envs) = 1
           /\ Envs[1].has_error
           /\ Envs[1].code = INVALID_REQUEST

----------------------------------------------------------------------------
\* C6: strict_add called as a request with a = "5" and b = 3 is answered
\* with code -32602; more generally, whenever the arguments bind to (a, b)
\* and strict_add's own type check raises TypeError, the envelope carries
\* -32602.
BindsToAB(p) ==
    \/ p.k = "list" /\ Len(p.list) = 2
    \/ p.k = "dict" /\ Len(p.dict) = 2 /\ KeysOf(p.dict) = {"a", "b"}

ValuesOf(p) ==
    IF p.k = "list" THEN Range(p.list) ELSE {p.dict[i].v : i \in DOMAIN p.dict}

C6_StrictAddTypeErrorIsInvalidParams ==
    (Responded /\ ValidPost(request))
        => \A k \in DOMAIN RequestsOf(request) :
              LET c == RequestsOf(request)[k].obj
              IN  (/\ c.method.s = "strict_add"
                   /\ BindsToAB(c.params)
                   /\ \E v \in ValuesOf(c.params) : ~IsPyInt(v))
                  => /\ k \in DOMAIN Envs
                     /\ Envs[k].has_error /\ ~Envs[k].has_result
                     /\ Envs[k].code = INVALID_PARAMS

\* strict_add with a = "5", b = 3 and an id, answered with -32602
C6_Witness ==
    /\ Responded
    /\ request = Single(Call(S("2.0"), S("strict_add"),
                             DictParams(<<KV("a", S("5")), KV("b", I(3))>>), I(1)))
    /\ invoked = <<"strict_add">>
    /\ Envs[1].code = INVALID_PARAMS

----------------------------------------------------------------------------
\* C7: a request (with id) naming a method that is not in the registry is
\* answered with code -32601 and the request's id, and no registered handler
\* is invoked for it.
\* the methods of the calls that name a registered method, in input order
MethodOf(e) == e.obj.method.s
NamesRegistered(e) == Registered(e.obj)
DispatchedOf(b) ==
    LET es == SelectSeq(b.elems, NamesRegistered)
    IN  [i \in DOMAIN es |-> MethodOf(es[i])]

----------------------------------------------------------------------------
\* C8: cause_internal_error called as a request with trigger "error", or
\* with no argument (the default), is answered with an error envelope whose
\* code lies in [-32099, -32000] (it is -32000), never with -32603 or a
\* result; called with any other trigger string it is answered with a
\* result that is the confirmation string.
\* the trigger a call passes: the default when it passes none
PassesNoArgument(p) ==
    \/ p.k = "absent"
    \/ p.k = "list" /\ p.list = <<>>
    \/ p.k = "dict" /\ p.dict = <<>>

PassesTrigger(p, v) ==
    \/ p.k = "list" /\ p.list = <<v>>
    \/ p.k = "dict" /\ p.dict = <<KV("trigger", v)>>

C8_WitnessNoError ==
    /\ Responded /\ ValidPost(request) /\ request.top = "single"
    /\ request.elems[1].obj.method.s = "cause_internal_error"
    /\ request.elems[1].obj.params = DictParams(<<KV("trigger", S("5"))>>)
    /\ Envs[1].result = S("No error triggered. Received: 5")

----------------------------------------------------------------------------
\* C9: a request to a registered method whose params do not bind to the
\* handler's parameters (a required argument missing, an unknown named
\* argument, too many positional arguments) is answered with code -32602;
\* an array binds positionally, an object binds by name, absent params are
\* zero arguments.
TooManyPositional(c) == Len(c.params.list) > Len(ParamNames(c.method.s))
UnknownNamed(c) == \E n \in KeysOf(c.params.dict) : n \notin Range(ParamNames(c.method.s))
Supplied(c, j) ==
    \/ j <= Len(c.params.list)
    \/ ParamNames(c.method.s)[j] \in KeysOf(c.params.dict)
\* the parameters without a default: all but cause_internal_error's trigger
RequiredMissing(c) ==
    /\ c.method.s # "cause_internal_error"
    /\ \E j \in DOMAIN ParamNames(c.method.s) : ~Supplied(c, j)
DoesNotBind(c) == TooManyPositional(c) \/ UnknownNamed(c) \/ RequiredMissing(c)

C9_UnboundParamsAreInvalidParams ==
    (Responded /\ ValidPost(request))
        => \A k \in DOMAIN RequestsOf(request) :
              LET c == RequestsOf(request)[k].obj
                  p == c.params
              IN  /\ (Registered(c) /\ DoesNotBind(c))
                        => /\ k \in DOMAIN Envs
                           /\ Envs[k].has_error /\ ~Envs[k].has_result
                           /\ Envs[k].code = INVALID_PARAMS
                  /\ (c.method.s = "demo_method" /\ p.k = "list" /\ Len(p.list) = 2)
                        => Envs[k].result =
                              S("Received: " \o PyStr(p.list[1]) \o " and " \o PyStr(p.list[2]))
                  /\ (c.method.s = "demo_method" /\ p.k = "dict"
                        /\ KeysOf(p.dict) = {"param1", "param2"})
                        => Envs[k].result =
                              S("Received: " \o PyStr(p.dict[ValueOf(p.dict, "param1")].v)
                                \o " and " \o PyStr(p.dict[ValueOf(p.dict, "param2")].v))
                  /\ (c.method.s = "clear_log" /\ p.k = "absent")
                        => Envs[k].result = S("Log cleared.")

\* demo_method without param2
C9_Witness ==
    /\ Responded /\ ValidPost(request) /\ request.top = "single"
    /\ request.elems[1].obj.method.s = "demo_method"
    /\ request.elems[1].obj.params = DictParams(<<KV("param1", S("5"))>>)
    /\ request.elems[1].obj.id = I(1)
    /\ Envs[1].code = INVALID_PARAMS

\* get_log with an argument
C9_WitnessTooMany ==
    /\ Responded /\ ValidPost(request) /\ request.top = "single"
    /\ request.elems[1].obj.method.s = "get_log"
    /\ request.elems[1].obj.params = ListParams(<<I(3)>>)
    /\ request.elems[1].obj.id = I(1)
    /\ Envs[1].code = INVALID_PARAMS

----------------------------------------------------------------------------
\* C10: every top-level payload or batch element that is not a JSON object,
\* or whose jsonrpc member is missing or is not exactly the string "2.0", or
\* whose method member is missing, not a string or the empty string, is
\* rejected with code -32600 and its method is never dispatched.
Malformed(e) ==
    \/ e.k # "object"
    \/ e.obj.jsonrpc # S("2.0")
    \/ e.obj.method.t # "str"
    \/ e.obj.method.s = ""

C10_MalformedIsInvalidRequest ==
    (Responded /\ IsJson(request) /\ request.elems # <<>>
        /\ \E i \in DOMAIN request.elems : Malformed(request.elems[i]))
        => /\ \E k \in DOMAIN Envs : Envs[k].has_error /\ Envs[k].code = INVALID_REQUEST
           /\ request.top = "single" => invoked = <<>>

----------------------------------------------------------------------------
\* C11: every response do_POST sends carries the status 200, whatever the
\* path: a result, a notification, a parse error, an invalid request, an
\* unknown method, invalid params, a handler that raises, a request that
\* cannot be read or decoded, an exception leaving handle.
C11_EveryResponseHasStatus200 ==
    Responded => /\ response.status = HTTP_OK
                 /\ response.header_blocks >= 1

\* an exception left handle (a 1.0 request whose params are not a list) and
\* the except branch answered with status 200
C11_Witness ==
    /\ Responded /\ IsJson(request) /\ request.top = "single"
    /\ request.elems[1].obj.jsonrpc = Absent
    /\ request.elems[1].obj.params.k = "dict"
    /\ Len(Envs) = 1 /\ Envs[1].code = INTERNAL_ERROR
    /\ response.status = HTTP_OK

----------------------------------------------------------------------------
\* C12: every envelope written, alone or as an element of a batch response,
\* has jsonrpc equal to "2.0", has an id member, and has exactly one of
\* result and error.
C12_EnvelopeShape ==
    Responded => \A k \in DOMAIN Envs :
                    /\ Envs[k].jsonrpc = S("2.0")
                    /\ Envs[k].id # Absent
                    /\ Envs[k].has_result # Envs[k].has_error

----------------------------------------------------------------------------
\* C13: for every POST (body empty, not UTF-8, truncated JSON, header
\* missing or not a number, any JSON value) do_POST completes with one
\* header block and a body that is empty, and then only for input made of
\* notifications alone, or one well-formed JSON document.
AllNotifications(b) ==
    /\ IsJson(b) /\ b.elems # <<>>
    /\ \A i \in DOMAIN b.elems : b.elems[i].k = "object" /\ ~HasId(b.elems[i])

C13_BodyEmptyOrOneJsonDocument ==
    Responded => /\ response.header_blocks = 1
                 /\ response.body.k \in {"empty", "single", "array"}
                 /\ response.body.k = "empty" => AllNotifications(request)
                 /\ response.body.k = "single" => Len(Envs) = 1
                 /\ response.body.k # "empty" => BodyIsJson(response.body)

----------------------------------------------------------------------------
\* C14: a request that cannot be read or decoded (Content-Length missing or
\* not an integer, bytes that are not UTF-8) is answered with status 200 and
\* one error envelope with code -32603, the exception text as data and id
\* null; and an envelope with code -32603 is written only for such a
\* request.
TransportFailure(b) == ~Readable(b)

C14_TransportFailureAnswer ==
    (Responded /\ TransportFailure(request))
        => /\ response.status = HTTP_OK
           /\ response.body.k = "single" /\ Len(Envs) = 1
           /\ Envs[1].has_error /\ ~Envs[1].has_result
           /\ Envs[1].code = INTERNAL_ERROR
           /\ Envs[1].data.k = "string" /\ Envs[1].data.message # ""
           /\ Envs[1].id = Null
           /\ invoked = <<>>

C14_InternalErrorOnlyForTransportFailure ==
    /\ C14_TransportFailureAnswer
    /\ Responded => \A k \in DOMAIN Envs :
                       (Envs[k].has_error /\ Envs[k].code = INTERNAL_ERROR)
                           => TransportFailure(request)

----------------------------------------------------------------------------
\* C15: a POST whose body is the empty JSON array is answered with one
\* error envelope, not an array and not an empty body, with code -32600 and
\* id null; nothing is dispatched.
C15_EmptyArrayIsInvalidRequest ==
    (Responded /\ request = Batch(<<>>))
        => /\ response.status = HTTP_OK
           /\ response.body.k = "single"
           /\ Len(Envs) = 1
           /\ Envs[1].has_error /\ ~Envs[1].has_result
           /\ Envs[1].code = INVALID_REQUEST
           /\ Envs[1].id = Null
           /\ invoked = <<>>

C15_Witness ==
    /\ Responded /\ request = Batch(<<>>)
    /\ response.body.k = "single"
    /\ Envs = <<InvalidRequestEnv>>

----------------------------------------------------------------------------
\* C16: in a batch that mixes well-formed calls with an element that is not
\* an object, the element gets a -32600 entry of its own, every well-formed
\* request is answered with an envelope carrying its id, and every
\* well-formed call to a registered method, notifications included, is
\* dispatched, in input order.
IsValidElem(e) == e.k = "object" /\ WellFormed(e.obj)
ValidWithId(e) == IsValidElem(e) /\ HasId(e)
ValidRegistered(e) == IsValidElem(e) /\ Registered(e.obj)
MethodsOf(es) == [i \in DOMAIN es |-> es[i].obj.method.s]

C16_BatchElementsIndependent ==
    (Responded /\ IsJson(request) /\ request.top = "array"
        /\ (\E i \in DOMAIN request.elems : request.elems[i].k # "object")
        /\ (\E i \in DOMAIN request.elems : IsValidElem(request.elems[i])))
        => /\ response.body.k = "array"
           /\ \E k \in DOMAIN Envs : Envs[k].has_error /\ Envs[k].code = INVALID_REQUEST
           /\ \A i \in DOMAIN request.elems :
                 ValidWithId(request.elems[i])
                     => \E k \in DOMAIN Envs : Envs[k].id = request.elems[i].obj.id
           /\ invoked = MethodsOf(SelectSeq(request.elems, ValidRegistered))

----------------------------------------------------------------------------
\* C17: an envelope with code -32600 written for a single object that
\* carries a string or integer id echoes that id; in particular the object
\* {"method":"add","params":{"a":1,"b":2},"id":1} is answered with id 1.
HasExtractableId(b) ==
    /\ IsJson(b) /\ b.top = "single"
    /\ b.elems[1].k = "object"
    /\ b.elems[1].obj.id.t \in {"int", "str"}

C17_InvalidRequestEchoesId ==
    /\ (Responded /\ HasExtractableId(request))
          => \A k \in DOMAIN Envs :
                (Envs[k].has_error /\ Envs[k].code = INVALID_REQUEST)
                    => Envs[k].id = request.elems[1].obj.id
    /\ (Responded
          /\ request = Single(Call(Absent, S("add"),
                                   DictParams(<<KV("a", I(1)), KV("b", I(2))>>), I(1))))
          => (Len(Envs) = 1 /\ Envs[1].id = I(1))

----------------------------------------------------------------------------
(* The log store as the calls of a POST should leave it.                     *)

\* the value a call binds to log_message's parameter, Absent if none binds
MessageOf(c) ==
    IF c.params.k = "list" /\ Len(c.params.list) = 1 THEN c.params.list[1]
    ELSE IF c.params.k = "dict" /\ KeysOf(c.params.dict) = {"message"}
                /\ Len(c.params.dict) = 1
    THEN c.params.dict[1].v
    ELSE Absent

NoArguments(c) ==
    \/ c.params.k = "absent"
    \/ c.params.k = "list" /\ c.params.list = <<>>
    \/ c.params.k = "dict" /\ c.params.dict = <<>>

\* the store after call c is handled: a logged message is appended with its
\* newline, clear_log empties the store, any other call leaves it
StoreAfterCall(c, content) ==
    IF c.method.s = "log_message" /\ IsPyStr(MessageOf(c))
    THEN content \o MessageOf(c).s \o "\n"
    ELSE IF c.method.s = "clear_log" /\ NoArguments(c) THEN ""
    ELSE content

\* the store when the i-th call of the POST is reached
RECURSIVE StoreBefore(_, _, _)
StoreBefore(elems, i, content) ==
    IF i = 1 THEN content
    ELSE StoreAfterCall(elems[i - 1].obj, StoreBefore(elems, i - 1, content))

\* the place, among the envelopes, of the answer to the i-th call
EnvIndex(elems, i) == Len(SelectSeq(SubSeq(elems, 1, i), HasId))

IsGetLogRequest(e) ==
    e.obj.method.s = "get_log" /\ NoArguments(e.obj) /\ HasId(e)

----------------------------------------------------------------------------
\* C18: handling a POST of well-formed calls leaves in the log store what
\* it held before, emptied by each clear_log and followed by each logged
\* message with its newline, in the order of the calls, once each; and each
\* get_log request of the POST returns the store as it is when the call is
\* reached.
C18_Step ==
    (pc = "idle" /\ pc' = "responded" /\ ValidPost(request'))
        => /\ log_file'.content =
                 StoreBefore(request'.elems, Len(request'.elems) + 1, log_file.content)
           /\ log_file.exists =>
                 \A i \in DOMAIN request'.elems :
                    IsGetLogRequest(request'.elems[i])
                        => response'.body.envs[EnvIndex(request'.elems, i)].result
                              = S(StoreBefore(request'.elems, i, log_file.content))

C18_LogStoreHoldsMessagesSinceClear == [][C18_Step]_vars

----------------------------------------------------------------------------
\* C19: whatever the log store holds, a clear_log call immediately followed
\* by a get_log request is answered, for get_log, with the result
\* "Log is empty.".
C19_ClearThenGetIsSentinel ==
    (Responded /\ ValidPost(request))
        => \A i \in 1..(Len(request.elems) - 1) :
              (/\ request.elems[i].obj.method.s = "clear_log"
               /\ NoArguments(request.elems[i].obj)
               /\ IsGetLogRequest(request.elems[i + 1]))
                  => Envs[EnvIndex(request.elems, i + 1)].result = S("Log is empty.")

----------------------------------------------------------------------------
\* C20: a get_log request is answered with a result and never an error:
\* "Log is empty." when no log file exists, and the stored text, unchanged,
\* when one exists; the store is left as it was.
C20_GetLogReturnsStoreOrSentinel ==
    (Responded /\ ValidPost(request) /\ request.top = "single"
        /\ IsGetLogRequest(request.elems[1]))
        => /\ Len(Envs) = 1
           /\ Envs[1].has_result /\ ~Envs[1].has_error
           /\ ~log_file.exists => Envs[1].result = S("Log is empty.")
           /\ log_file.exists => Envs[1].result = S(log_file.content)

----------------------------------------------------------------------------
\* C21: a strict_add request whose params bind to (a, b) is answered with
\* the result a + b when both values are JSON integers, and with an error
\* and no result when either is of another JSON type (a string, a fractional
\* number, true or false, null).
StrictAddRequest(b) ==
    /\ ValidPost(b) /\ b.top = "single"
    /\ b.elems[1].obj.method.s = "strict_add"
    /\ BindsToAB(b.elems[1].obj.params)
    /\ HasId(b.elems[1])

ArgOf(c, j) == Arg(c.method.s, ArgsOf(c.params), KwargsOf(c.params), j)

C21_StrictAddOnlyJsonIntegers ==
    (Responded /\ StrictAddRequest(request))
        => /\ Len(Envs) = 1
           /\ IF ArgOf(request.elems[1].obj, 1).t = "int"
                    /\ ArgOf(request.elems[1].obj, 2).t = "int"
              THEN /\ Envs[1].has_result /\ ~Envs[1].has_error
                   /\ Envs[1].result = I(ArgOf(request.elems[1].obj, 1).n
                                            + ArgOf(request.elems[1].obj, 2).n)
              ELSE Envs[1].has_error /\ ~Envs[1].has_result

----------------------------------------------------------------------------
\* C28: handling a POST changes the log store only when a log_message or
\* clear_log call of the POST binds its params, so that the handler runs;
\* a POST answered with a parse error, an invalid request, method not found
\* or a binding error (log_message and clear_log included), and a call to
\* get_log, add, strict_add, greet, demo_method or cause_internal_error,
\* leaves the store, its existence included, as it was.
RunsLogWriter(e) ==
    /\ e.k = "object"
    /\ e.obj.method \in {S("log_message"), S("clear_log")}
    /\ Binds(e.obj.method.s, ArgsOf(e.obj.params), KwargsOf(e.obj.params))

EndsInProtocolError(b, resp) ==
    /\ resp.body.k = "single"
    /\ resp.body.envs[1].has_error
    /\ \/ resp.body.envs[1].code \in {PARSE_ERROR, INVALID_REQUEST, METHOD_NOT_FOUND}
       \/ /\ resp.body.envs[1].code = INVALID_PARAMS
          /\ ValidPost(b) /\ b.top = "single" /\ Registered(b.elems[1].obj)
          /\ DoesNotBind(b.elems[1].obj)

CallsReader(b) ==
    /\ ValidPost(b) /\ b.top = "single"
    /\ b.elems[1].obj.method.s \in {"get_log", "add", "strict_add", "greet",
                                     "demo_method", "cause_internal_error"}

C28_Step ==
    (pc = "idle" /\ pc' = "responded")
        => /\ log_file' # log_file
                 => \E i \in DOMAIN request'.elems : RunsLogWriter(request'.elems[i])
           /\ EndsInProtocolError(request', response') => log_file' = log_file
           /\ CallsReader(request') => log_file' = log_file

C28_LogStoreFrame == [][C28_Step]_vars

\* log_message called without its message: -32602, and the store is still
\* missing
C28_Witness ==
    /\ Responded /\ ValidPost(request) /\ request.top = "single"
    /\ request.elems[1].obj.method.s = "log_message"
    /\ request.elems[1].obj.params.k = "absent"
    /\ response.body.k = "single"
    /\ Envs[1].has_error /\ Envs[1].code = INVALID_PARAMS
    /\ ~log_file.exists

----------------------------------------------------------------------------
\* C29: in the batch [log_message("5") as notification, get_log as request]
\* the get_log result is the store with the line of that log_message at its
\* end; in the batch [get_log, log_message("5")] the result is the store as
\* it was before, without that line, which is in the store afterwards.
LogNote == Obj(Call(S("2.0"), S("log_message"), ListParams(<<S("5")>>), Absent))
GetLogRequest == Obj(Call(S("2.0"), S("get_log"), NoParams, S("g")))

EndsWith(s, t) == Len(s) >= Len(t) /\ SubSeq(s, Len(s) - Len(t) + 1, Len(s)) = t

C29_BatchHandlersSeeEarlierEffects ==
    /\ (Responded /\ request = Batch(<<LogNote, GetLogRequest>>))
          => /\ invoked = <<"log_message", "get_log">>
             /\ Len(Envs) = 1 /\ Envs[1].has_result
             /\ Envs[1].result = S(UniversalNewlines(log_file.content))
             /\ EndsWith(Envs[1].result.s, "5\n")
    /\ (Responded /\ request = Batch(<<GetLogRequest, LogNote>>))
          => /\ invoked = <<"get_log", "log_message">>
             /\ Len(Envs) = 1 /\ Envs[1].has_result
             /\ EndsWith(log_file.content, "5\n")
             /\ \/ Envs[1].result = S("Log is empty.") /\ log_file.content = "5\n"
                \/ UniversalNewlines(log_file.content) = Envs[1].result.s \o "5\n"

\* the log file did not exist: the first batch creates it before get_log runs
C29_Witness ==
    /\ Responded /\ request = Batch(<<LogNote, GetLogRequest>>)
    /\ log_file.content = "5\n"
    /\ Envs[1].result = S("5\n")

\* the same two calls in the other order, on a missing log file
C29_WitnessReversed ==
    /\ Responded /\ request = Batch(<<GetLogRequest, LogNote>>)
    /\ log_file.content = "5\n"
    /\ Envs[1].result = S("Log is empty.")

----------------------------------------------------------------------------
\* C22: constructing a second JSONRPCServer with another log file does not
\* change the handlers used by the requests sent to the first: each such
\* POST reads and writes the log file of the first instance and leaves the
\* log file of the second as it is.
C22_Step ==
    (pc = "idle" /\ pc' = "responded")
        => /\ log_file2' = log_file2
           /\ (request' = Single(Call(S("2.0"), S("get_log"), NoParams, I(1)))
                   /\ log_file.exists)
                 => response'.body.envs[1].result = S(log_file.content)

C22_RegistryPerInstance == [][C22_Step]_vars

----------------------------------------------------------------------------
(* JSONRPCServer.start: HTTPServer.serve_forever.  Clients connect at any    *)
(* time; the connections wait in the listen queue.  serve_forever takes one  *)
(* connection, runs do_POST on it to the end in its own thread, and only     *)
(* then takes the next.  The calls of a batch are separate steps, so that    *)
(* what another request could do between them is visible.                    *)

\* a client connects and sends the POST b
Connect(b) ==
    /\ Len(backlog) < MaxBacklog
    /\ backlog' = Append(backlog, b)
    /\ UNCHANGED <<log_file, method_map, pc, request, response, invoked,
                   instanceVars, in_flight, launcherVars>>

\* a slip: ThreadingHTTPServer, a thread per connection
CanAcceptThreading == Len(in_flight) < 2

\* HTTPServer: the next connection is taken when do_POST has returned
CanAccept == in_flight = <<>>

\* from_data on the body, where do_POST gets that far
Parsed(b) ==
    IF Readable(b) /\ b.text = "json" THEN FromData(b.top, b.elems)
    ELSE [out |-> "invalid", batch |-> FALSE, reqs |-> <<>>]

\* do_POST on body b at its first line; start is the log file as it found it
Thread(b, d, log) ==
    [body |-> b, start |-> log,
     stepwise |-> Readable(b) /\ b.text = "json" /\ d.out = "ok",
     batch |-> d.batch, reqs |-> d.reqs, i |-> 1,
     acc |-> [log |-> log, invoked |-> <<>>, out |-> <<>>, raised |-> FALSE]]

Accept ==
    /\ backlog # <<>>
    /\ CanAccept
    /\ in_flight' = Append(in_flight, Thread(Head(backlog), Parsed(Head(backlog)), log_file))
    /\ backlog' = Tail(backlog)
    /\ UNCHANGED <<log_file, method_map, pc, request, response, invoked,
                   instanceVars, launcherVars>>

\* _get_responses has a request left to answer
Running(t) == t.stepwise /\ t.i <= Len(t.reqs) /\ ~t.acc.raised

CallEffect(k, t, r, x) ==
    /\ Len(x.log.content) <= MaxLogLen
    /\ log_file' = x.log
    /\ in_flight' = [in_flight EXCEPT ![k] =
                        [t EXCEPT !.i = t.i + 1, !.acc = Collect(t.acc, r, x)]]

\* one turn of _get_responses in thread k: the handler runs on the log file
\* as it is now
RunCall(k) ==
    /\ k \in DOMAIN in_flight
    /\ Running(in_flight[k])
    /\ CallEffect(k, in_flight[k], in_flight[k].reqs[in_flight[k].i],
                  Respond(in_flight[k].reqs[in_flight[k].i], method_map, log_file))
    /\ UNCHANGED <<method_map, pc, request, response, invoked, instanceVars,
                   backlog, launcherVars>>

\* what handle returns to do_POST in thread t
ThreadHandled(t) ==
    IF t.stepwise THEN HandleRequest(t.batch, t.acc)
    ELSE IF Readable(t.body) THEN Handle(t.body, method_map, log_file)
    ELSE Handled("raise", <<>>, log_file, <<>>, "")

(* Lines 139-181 when the peer has closed the connection: the first write    *)
(* on the socket (the header block) is taken, the next one raises.  After    *)
(* the headers of line 141 the write of line 145 raises into the branch of   *)
(* lines 166-181, which composes and writes a status line and header block   *)
(* again; that write raises and leaves do_POST.  Where the exception came    *)
(* before line 139 the branch writes its headers and its body write raises.  *)
(* wfile.write(b"") of line 148 sends nothing and does not raise.            *)
AnswerClosedPeer(h) ==
    IF h.kind = "none"
    THEN Done(HttpResponse(HTTP_OK, 1, "empty", <<>>), h.log, h.invoked)
    ELSE IF h.kind = "raise"
    THEN Done(HttpResponse(HTTP_OK, 1, "lost", <<>>), h.log, h.invoked)
    ELSE Done(HttpResponse(HTTP_OK, 2, "lost", <<>>), h.log, h.invoked)

\* do_POST of thread t from the return of handle on
ThreadDone(t, h) ==
    IF t.body.peer = "closed" THEN AnswerClosedPeer(h)
    ELSE IF Readable(t.body) THEN Answer(h)
    ELSE do_POST(t.body, method_map, log_file)

RemoveAt(q, k) == [j \in 1..(Len(q) - 1) |-> IF j < k THEN q[j] ELSE q[j + 1]]

Completion(k, t, d) ==
    /\ response' = d.response
    /\ invoked' = d.invoked
    /\ request' = t.body
    /\ in_flight' = RemoveAt(in_flight, k)

\* do_POST of thread k writes its answer and returns
Complete(k) ==
    /\ k \in DOMAIN in_flight
    /\ ~Running(in_flight[k])
    /\ Completion(k, in_flight[k], ThreadDone(in_flight[k], ThreadHandled(in_flight[k])))
    /\ UNCHANGED <<log_file, method_map, pc, instanceVars, backlog, launcherVars>>

ServeBodies ==
    {Batch(<<LogNote, GetLogRequest>>),
     Batch(<<GetLogRequest, LogNote>>),
     Single(Call(S("2.0"), S("clear_log"), NoParams, I(1))),
     Body("ok", TRUE, "truncated", "single", <<LogNote>>),
     HungUp(Single(Call(S("2.0"), S("get_log"), NoParams, I(1)))),
     HungUp(Single(LogNote.obj)),
     HungUp(Body("nonnumeric", TRUE, "json", "single", <<LogNote>>))}

NextServe ==
    \/ \E b \in ServeBodies : Connect(b)
    \/ Accept
    \/ \E k \in DOMAIN in_flight : RunCall(k)
    \/ \E k \in DOMAIN in_flight : Complete(k)

SpecServe == Init /\ [][NextServe]_vars

(* C23: the server handles one POST at a time.  At most one do_POST is in    *)
(* progress, and when a do_POST returns, the log file and the answer are     *)
(* what that request gives on the log file it found when it was accepted:    *)
(* no call of another request came in between, every line written is there   *)
(* whole and get_log read whole lines.                                       *)
C23_AsIfAlone(t, d) ==
    /\ log_file' = d.log
    /\ invoked' = d.invoked
    /\ t.body.peer = "open" => response' = d.response

C23_Step ==
    /\ Len(in_flight') <= 1
    /\ \A k \in DOMAIN in_flight :
          Len(in_flight') < Len(in_flight) /\ in_flight' = RemoveAt(in_flight, k)
             => C23_AsIfAlone(in_flight[k],
                              do_POST(in_flight[k].body, method_map, in_flight[k].start))

C23_OnePostAtATime == [][C23_Step]_vars

\* a batch has written its line and not yet read the log, while another
\* request is waiting
C23_Witness ==
    /\ Len(in_flight) = 1
    /\ in_flight[1].body = Batch(<<LogNote, GetLogRequest>>)
    /\ in_flight[1].i = 2
    /\ log_file.content # in_flight[1].start.content
    /\ backlog # <<>>

(* C27: every POST is answered with exactly one status line and header       *)
(* block, whichever step fails, also when the failure comes after the        *)
(* headers of the 200 answer were sent.                                      *)
C27_HeadersSentOnce == response # NoResponse => response.header_blocks = 1

----------------------------------------------------------------------------
(* PlaygroundLauncher.start, statement by statement.  The children run on    *)
(* their own and may exit at any time; Ctrl+C raises KeyboardInterrupt in    *)
(* the launcher wherever it is inside the try block, also while Popen has    *)
(* created the child and has not yet returned the handle.                    *)

httpVars == <<log_file, method_map, pc, request, response, invoked, instanceVars,
              serveVars>>

Forked(p) == [p EXCEPT !.alive = TRUE]
Assigned(p) == [p EXCEPT !.handle = TRUE]
Exited(p) == [p EXCEPT !.alive = FALSE]
\* terminate(); the wait that follows has not timed out yet
Terminated(p) == [p EXCEPT !.terminated = TRUE, !.timed_out = FALSE]
TimedOut(p) == [p EXCEPT !.timed_out = TRUE]

\* a slip: TimeoutExpired is swallowed, the child is left as it is
KilledNot(p) == p

\* lines 152-153 and 161-162: kill(), then wait() returns
Killed(p) == [p EXCEPT !.killed = TRUE, !.alive = FALSE]

Proc(who) == IF who = "server" THEN server_proc ELSE client_proc
SetProc(who, p) ==
    IF who = "server"
    THEN server_proc' = p /\ client_proc' = client_proc
    ELSE client_proc' = p /\ server_proc' = server_proc

\* start is called: lines 34-36, entering the try block
Start ==
    /\ lpc = "new"
    /\ lpc' = "start_server"
    /\ UNCHANGED <<cleanup_pc, server_proc, client_proc, timeout, probes, seen_200,
                   ready, start_ret, cleanups, interrupted, httpVars>>

\* where start goes on once the child who was started or failed to start
AfterSpawn(who) == IF who = "server" THEN "wait_for_server" ELSE "client_wait"

(* _start_server, _start_client: subprocess.Popen.  It raises an Exception   *)
(* with no child left (the attribute is set to None), or creates the child.  *)
Spawn(who) ==
    /\ lpc = "start_" \o who
    /\ \/ SetProc(who, NoProc) /\ lpc' = AfterSpawn(who)
       \/ SetProc(who, Forked(NoProc)) /\ lpc' = who \o "_forked"
    /\ UNCHANGED <<cleanup_pc, timeout, probes, seen_200, ready, start_ret, cleanups,
                   interrupted, httpVars>>

\* Popen returns and the handle is assigned to self.server_proc / client_proc
Assign(who) ==
    /\ lpc = who \o "_forked"
    /\ SetProc(who, Assigned(Proc(who)))
    /\ lpc' = AfterSpawn(who)
    /\ UNCHANGED <<cleanup_pc, timeout, probes, seen_200, ready, start_ret, cleanups,
                   interrupted, httpVars>>

\* the child exits on its own
ChildExits(who) ==
    /\ Proc(who).alive
    /\ SetProc(who, Exited(Proc(who)))
    /\ UNCHANGED <<lpc, cleanup_pc, timeout, probes, seen_200, ready, start_ret,
                   cleanups, interrupted, httpVars>>

\* the timeouts _wait_for_server is called with: start uses the default
Timeouts == (0..MaxTimeout) \cup {DEFAULT_TIMEOUT}

\* _wait_for_server(t) is entered
WaitForServer(t) ==
    /\ lpc = "wait_for_server"
    /\ timeout' = t
    /\ probes' = 0
    /\ seen_200' = 0
    /\ lpc' = "probing"
    /\ UNCHANGED <<cleanup_pc, server_proc, client_proc, ready, start_ret, cleanups,
                   interrupted, httpVars>>

\* what a probe POST may come to: a status, or 0 for an exception of requests
ProbeOutcomes == {HTTP_OK, 404, 0}

\* a slip: any answer of the server counts as ready
ProbeReadyAnyResponse(status) == status # 0

\* line 135: if response.status_code == 200
ProbeReady(status) == status = HTTP_OK

\* a slip: the result of _wait_for_server is not looked at
AfterWaitUnchecked(r) == "start_client"

\* line 41: if not self._wait_for_server()
AfterWait(r) == IF r THEN "start_client" ELSE "not_ready_cleanup"

\* one turn of the loop of lines 122-140
Probe(status) ==
    /\ lpc = "probing"
    /\ probes < timeout * PROBES_PER_SECOND
    /\ probes' = probes + 1
    /\ seen_200' = IF status = HTTP_OK THEN seen_200 + 1 ELSE seen_200
    /\ IF ProbeReady(status)
       THEN ready' = "yes" /\ lpc' = AfterWait(TRUE) /\ cleanup_pc' = cleanup_pc
       ELSE UNCHANGED <<ready, lpc, cleanup_pc>>
    /\ UNCHANGED <<server_proc, client_proc, timeout, start_ret, cleanups, interrupted, httpVars>>

\* line 142: the range is used up, return False; line 43: _cleanup is called
GiveUp ==
    /\ lpc = "probing"
    /\ probes >= timeout * PROBES_PER_SECOND
    /\ ready' = "no"
    /\ lpc' = AfterWait(FALSE)
    /\ cleanup_pc' = IF AfterWait(FALSE) = "not_ready_cleanup" THEN "server" ELSE cleanup_pc
    /\ UNCHANGED <<server_proc, client_proc, timeout, probes, seen_200, start_ret,
                   cleanups, interrupted, httpVars>>

\* lines 55-56: the client handle is None, or client_proc.wait() returns
ClientWait ==
    /\ lpc = "client_wait"
    /\ client_proc.handle => ~client_proc.alive
    /\ lpc' = "finally"
    /\ cleanup_pc' = "server"
    /\ UNCHANGED <<server_proc, client_proc, timeout, probes, seen_200, ready,
                   start_ret, cleanups, interrupted, httpVars>>

\* the statements of start inside the try block
InTry ==
    {"start_server", "server_forked", "wait_for_server", "probing",
     "not_ready_cleanup", "return_false", "start_client", "client_forked",
     "client_wait"}

\* lines 58-61: KeyboardInterrupt is caught, the finally block calls _cleanup
KeyboardInterrupt ==
    /\ lpc \in InTry
    /\ lpc' = "finally"
    /\ cleanup_pc' = "server"
    /\ interrupted' = TRUE
    /\ UNCHANGED <<server_proc, client_proc, timeout, probes, seen_200, ready,
                   start_ret, cleanups, httpVars>>

\* _cleanup is running, called at line 43 or from the finally block
InCleanup == lpc \in {"not_ready_cleanup", "finally"}

NextProc(who) == IF who = "server" THEN "client" ELSE "done"

\* lines 146-148, 155-157: the attribute is tested; terminate() if it is set
CleanupTerminate(who) ==
    /\ InCleanup
    /\ cleanup_pc = who
    /\ IF Proc(who).handle
       THEN SetProc(who, Terminated(Proc(who))) /\ cleanup_pc' = who \o "_wait"
       ELSE UNCHANGED <<server_proc, client_proc>> /\ cleanup_pc' = NextProc(who)
    /\ UNCHANGED <<lpc, timeout, probes, seen_200, ready, start_ret, cleanups,
                   interrupted, httpVars>>

(* lines 149-151, 158-160: wait(timeout=2) returns because the child has     *)
(* exited, or raises TimeoutExpired because it is still running              *)
CleanupWait(who) ==
    /\ InCleanup
    /\ cleanup_pc = who \o "_wait"
    /\ \/ SetProc(who, Exited(Proc(who))) /\ cleanup_pc' = NextProc(who)
       \/ /\ Proc(who).alive
          /\ SetProc(who, TimedOut(Proc(who)))
          /\ cleanup_pc' = who \o "_kill"
    /\ UNCHANGED <<lpc, timeout, probes, seen_200, ready, start_ret, cleanups,
                   interrupted, httpVars>>

CleanupKill(who) ==
    /\ InCleanup
    /\ cleanup_pc = who \o "_kill"
    /\ SetProc(who, Killed(Proc(who)))
    /\ cleanup_pc' = NextProc(who)
    /\ UNCHANGED <<lpc, timeout, probes, seen_200, ready, start_ret, cleanups,
                   interrupted, httpVars>>

(* _cleanup returns: at line 43 to the return False of line 44, whose value  *)
(* start gives back once the finally block has run; from the finally block   *)
(* to the caller of start                                                    *)
CleanupReturns ==
    /\ InCleanup
    /\ cleanup_pc = "done"
    /\ cleanups' = cleanups + 1
    /\ cleanup_pc' = "off"
    /\ lpc' = IF lpc = "not_ready_cleanup" THEN "return_false" ELSE "done"
    /\ start_ret' = IF lpc = "finally" /\ start_ret = "running" THEN "None" ELSE start_ret
    /\ UNCHANGED <<server_proc, client_proc, timeout, probes, seen_200, ready,
                   interrupted, httpVars>>

\* line 44: return False, which enters the finally block
ReturnFalse ==
    /\ lpc = "return_false"
    /\ start_ret' = "False"
    /\ lpc' = "finally"
    /\ cleanup_pc' = "server"
    /\ UNCHANGED <<server_proc, client_proc, timeout, probes, seen_200, ready,
                   cleanups, interrupted, httpVars>>

Children == {"server", "client"}

\* a step of the loop of _wait_for_server
WaitLoop == (\E status \in ProbeOutcomes : Probe(status)) \/ GiveUp

NextLauncher ==
    \/ Start
    \/ \E who \in Children : Spawn(who)
    \/ \E who \in Children : Assign(who)
    \/ \E who \in Children : ChildExits(who)
    \/ \E t \in Timeouts : WaitForServer(t)
    \/ \E status \in ProbeOutcomes : Probe(status)
    \/ GiveUp
    \/ ClientWait
    \/ KeyboardInterrupt
    \/ \E who \in Children : CleanupTerminate(who)
    \/ \E who \in Children : CleanupWait(who)
    \/ \E who \in Children : CleanupKill(who)
    \/ CleanupReturns
    \/ ReturnFalse

(* A probe returns or raises within its timeout of 0.5 seconds, and the      *)
(* sleep of 0.2 seconds ends: the loop goes on as long as it has a turn.     *)
SpecLauncher == Init /\ [][NextLauncher]_vars /\ WF_vars(WaitLoop)

(* C24: _wait_for_server(timeout) ends after at most timeout * 5 probe       *)
(* POSTs; it returns True at the first probe answered with status 200, and   *)
(* False when every one of the timeout * 5 probes raised or was answered     *)
(* with another status.                                                      *)
C24_Probing ==
    /\ probes <= timeout * PROBES_PER_SECOND
    /\ lpc = "probing" => seen_200 = 0
    /\ ready = "yes" => seen_200 = 1
    /\ ready = "no" => seen_200 = 0 /\ probes = timeout * PROBES_PER_SECOND

C24_WaitForServerTerminates ==
    []C24_Probing /\ (lpc = "probing" ~> lpc # "probing")

\* the last probe of the default timeout was the one answered with 200
C24_Witness ==
    /\ ready = "yes"
    /\ timeout = DEFAULT_TIMEOUT
    /\ probes = DEFAULT_TIMEOUT * PROBES_PER_SECOND

(* C25: _cleanup calls terminate() on each of server_proc and client_proc    *)
(* that is set and on no other, calls kill() only after the wait of two      *)
(* seconds timed out, and when it returns every child whose attribute is     *)
(* set has been sent terminate, has exited, and was killed if its wait       *)
(* timed out; with neither attribute set it does nothing.                    *)
C25_Step ==
    /\ \A who \in Children :
          /\ Proc(who)'.terminated /\ ~Proc(who).terminated => Proc(who).handle
          /\ Proc(who)'.timed_out /\ ~Proc(who).timed_out => Proc(who).terminated
          /\ Proc(who)'.killed /\ ~Proc(who).killed
                => Proc(who).terminated /\ Proc(who).timed_out
    /\ cleanup_pc' = "done" =>
          \A who \in Children :
             Proc(who)'.handle =>
                /\ Proc(who)'.terminated
                /\ ~Proc(who)'.alive
                /\ Proc(who)'.timed_out => Proc(who)'.killed

C25_CleanupStopsEachChild == [][C25_Step]_vars

\* the server had to be killed, the client went on terminate
C25_Witness ==
    /\ cleanup_pc = "done"
    /\ server_proc.handle /\ server_proc.killed
    /\ client_proc.handle /\ client_proc.terminated /\ ~client_proc.killed

C30_CleanupOnEveryExit ==
    lpc = "done" =>
       /\ cleanups >= 1
       /\ \A who \in Children :
             /\ ~Proc(who).alive
             /\ Proc(who).handle => Proc(who).terminated

====
